---- MODULE Spec2Model ----
(***************************************************************************)
(* State-machine model of src/main.py ("catch me if you can"): the Sun     *)
(* (radius, center, deque of radii), the Game booleans, the level timer    *)
(* and the frame loop of Game.run followed by Game.launch_end_video.       *)
(*                                                                         *)
(* Time.  The code only ever looks at                                      *)
(*     (datetime.now() - last_sun_location_update).seconds                 *)
(* i.e. the whole seconds elapsed since the timer was last reset.  The     *)
(* variable elapsed holds that value as of the latest clock read.  The     *)
(* main loop is capped at FPS = 60 frames per second and every sleep() of  *)
(* render is followed by a reset of the timer or by the end of the loop,   *)
(* so between two consecutive clock reads at most one second boundary is   *)
(* crossed, and a frame that follows one in which a boundary was crossed   *)
(* or the timer was reset crosses none.                                    *)
(***************************************************************************)
EXTENDS Integers, Sequences, FiniteSets, TLC

----------------------------------------------------------------------------
(* Bounds of the model *)

\* largest radius handed to the Sun constructor
MaxRadius == 6
\* largest value tried for Sun.sun_reducing_value when the deque alone is built
MaxReducingValue == 3
\* largest number of events one call of pygame.event.get() returns
MaxEvents == 2
\* cap on the elapsed whole seconds the model tracks
MaxElapsed == 3

(* Program constants *)

\* Sun.sun_reducing_value as set by the constructor
DefaultReducingValue == 2
\* Game.level_time_limit, in seconds
level_time_limit == 2
\* Game.sun_update_rate, in seconds
sun_update_rate == 2

\* the values of MessageToDisplay.displayed_text the game writes
TextWon == "Gagne !"
TextLost == "Perdu !"
TextPhaseDone == "Tu as termine le jeu"
TextGameDone == "Felicitations !!!"

VARIABLES
    screen_width,         \* Sun.screen_width
    screen_height,        \* Sun.screen_height
    radius,               \* Sun._radius
    center_location,      \* Sun._center_location, <<x, y>>
    sun_reducing_value,   \* Sun.sun_reducing_value
    sun_radii,            \* Sun._sun_radii, the deque, front first
    number_of_sun_radii,  \* Sun._number_of_sun_radii
    displayed_text,       \* MessageToDisplay._displayed_text
    elapsed,              \* (now - last_sun_location_update).seconds at the last read
    clock_fresh,          \* elapsed took its value less than a frame ago: the timer
                          \* was reset or a second boundary crossed in the last frame
    running,              \* Game.running
    running_end_video,    \* Game.running_end_video
    end_level,            \* Game.end_level
    end_game,             \* Game.end_game
    first_game_phase,     \* Game.first_game_phase
    second_game_phase,    \* Game.second_game_phase
    victory,              \* Game.victory
    pc,                   \* position in the __main__ script and its loops
    caller,               \* which loop called process_input: "run" or "video"
    drained,              \* events of the current pygame.event.get() handled so far
    missed,               \* the event process_input handled last was a click outside
                          \* the disc of the Sun
    mouse,                \* mouse_center_location while a click is being handled,
                          \* <<>> otherwise
    \* history variables: what happened, never read by the program
    initial_radius,       \* the radius the Sun was constructed with
    initial_radii,        \* the deque as built by initialize_sun_radii
    consumed,             \* the radii popped off the deque, oldest first
    shrinks,              \* number of hits that shrank the Sun in the first phase
    random_hits,          \* hits registered while the second phase was active
    frame_hits,           \* kinds of the hits registered in the current frame, in order
    frame_read,           \* the elapsed seconds the timeout check of the current frame
                          \* read (-1 before the check)
    timeouts,             \* number of timeout checks that fired, counted up to 1
    outcome,              \* "defeat" or "victory" once a render has resolved its
                          \* frame that way, "none" before
    presented             \* for each frame end of the second phase that left a new
                          \* radius on the Sun, the number of radii popped by then

sun_vars == <<screen_width, screen_height, radius, center_location, sun_reducing_value,
              sun_radii, number_of_sun_radii>>
clock_vars == <<elapsed, clock_fresh>>
flag_vars == <<running, running_end_video, end_level, end_game,
               first_game_phase, second_game_phase, victory>>
hist_vars == <<initial_radius, initial_radii, consumed, shrinks, random_hits,
               frame_hits, frame_read, timeouts, outcome, presented>>

input_vars == <<drained, missed, mouse>>
vars == <<sun_vars, displayed_text, clock_vars, flag_vars, pc, caller, input_vars,
          hist_vars>>

----------------------------------------------------------------------------
(* Pure helpers *)

\* Python's range(start, stop, step) for a positive step, as a sequence
RECURSIVE PyRange(_, _, _)
PyRange(start, stop, step) ==
    IF start >= stop THEN <<>>
    ELSE <<start>> \o PyRange(start + step, stop, step)

\* every order random.shuffle can leave the list in
Shuffles(list) ==
    LET n == Len(list)
        Bijections == {f \in [1..n -> 1..n] : \A i, j \in 1..n : f[i] = f[j] => i = j}
    IN  {[i \in 1..n |-> list[f[i]]] : f \in Bijections}

\* a range that stops one short: radius - reducing value for radius + 1 - reducing value
InitializeSunRadiiStopsShort(r, d) ==
    {<<r>> \o s : s \in Shuffles(PyRange(d, r - d, d))}

\* Sun.initialize_sun_radii: every deque it can build for a radius and a reducing value
InitializeSunRadii(r, d) ==
    {<<r>> \o s : s \in Shuffles(PyRange(d, r + 1 - d, d))}

\* an update that draws the centre from the whole window, whatever the radius
UpdateLocationsAnywhere(r) ==
    {<<x, y>> : x \in 0 .. (screen_width - 1), y \in 0 .. (screen_height - 1)}

\* Sun.update: the centers randrange can draw for a radius
\* (randrange(a, b) draws from a .. b - 1)
UpdateLocations(r) ==
    {<<x, y>> : x \in r .. (screen_width - r - 1), y \in r .. (screen_height - r - 1)}

\* pygame.mouse.get_pos(): the pixels the mouse is tried at, the middle row of the
\* window (every x, so that hits, misses and clicks on the rim all happen)
MousePositions == {<<x, screen_height \div 2>> : x \in 0 .. (screen_width - 1)}

\* a hit test that rejects the points of the rim (< for <=)
DoesPointBelongToCircleStrict(point, c, r) ==
    (point[1] - c[1]) * (point[1] - c[1]) + (point[2] - c[2]) * (point[2] - c[2]) < r * r

\* a hit test that also accepts the points one unit beyond the rim
DoesPointBelongToCircleWider(point, c, r) ==
    (point[1] - c[1]) * (point[1] - c[1]) + (point[2] - c[2]) * (point[2] - c[2])
        <= (r + 1) * (r + 1)

\* Game.__does_point_belong_to_circle
DoesPointBelongToCircle(point, c, r) ==
    (point[1] - c[1]) * (point[1] - c[1]) + (point[2] - c[2]) * (point[2] - c[2]) <= r * r

\* a first phase that shrinks on r >= d instead of r > d
ChangeRadiusShrinksAtDecrement(first, second, r, radii, d) ==
    IF first /\ ~second
    THEN IF r >= d
         THEN [result |-> "True", radius |-> r - d, radii |-> radii, popped |-> <<>>,
               updated |-> TRUE]
         ELSE [result |-> "False", radius |-> r, radii |-> radii, popped |-> <<>>,
               updated |-> FALSE]
    ELSE IF ~first /\ second
    THEN IF radii # <<>>
         THEN [result |-> "True", radius |-> Head(radii), radii |-> Tail(radii),
               popped |-> <<Head(radii)>>, updated |-> TRUE]
         ELSE [result |-> "False", radius |-> r, radii |-> radii, popped |-> <<>>,
               updated |-> FALSE]
    ELSE [result |-> "None", radius |-> r, radii |-> radii, popped |-> <<>>,
          updated |-> FALSE]

\* a second phase that pops the deque from the wrong end (pop() for popleft())
ChangeRadiusPopsRight(first, second, r, radii, d) ==
    IF first /\ ~second
    THEN IF r > d
         THEN [result |-> "True", radius |-> r - d, radii |-> radii, popped |-> <<>>,
               updated |-> TRUE]
         ELSE [result |-> "False", radius |-> r, radii |-> radii, popped |-> <<>>,
               updated |-> FALSE]
    ELSE IF ~first /\ second
    THEN IF radii # <<>>
         THEN [result |-> "True", radius |-> radii[Len(radii)],
               radii |-> SubSeq(radii, 1, Len(radii) - 1),
               popped |-> <<radii[Len(radii)]>>, updated |-> TRUE]
         ELSE [result |-> "False", radius |-> r, radii |-> radii, popped |-> <<>>,
               updated |-> FALSE]
    ELSE [result |-> "None", radius |-> r, radii |-> radii, popped |-> <<>>,
          updated |-> FALSE]

\* a second phase that lets the IndexError of popleft() on an empty deque escape
ChangeRadiusRaises(first, second, r, radii, d) ==
    IF first /\ ~second
    THEN IF r > d
         THEN [result |-> "True", radius |-> r - d, radii |-> radii, popped |-> <<>>,
               updated |-> TRUE]
         ELSE [result |-> "False", radius |-> r, radii |-> radii, popped |-> <<>>,
               updated |-> FALSE]
    ELSE IF ~first /\ second
    THEN IF radii # <<>>
         THEN [result |-> "True", radius |-> Head(radii), radii |-> Tail(radii),
               popped |-> <<Head(radii)>>, updated |-> TRUE]
         ELSE [result |-> "IndexError", radius |-> r, radii |-> radii, popped |-> <<>>,
               updated |-> FALSE]
    ELSE [result |-> "None", radius |-> r, radii |-> radii, popped |-> <<>>,
          updated |-> FALSE]

\* a second phase that pops the deque and forgets to assign what it popped
ChangeRadiusKeepsRadius(first, second, r, radii, d) ==
    IF first /\ ~second
    THEN IF r > d
         THEN [result |-> "True", radius |-> r - d, radii |-> radii, popped |-> <<>>,
               updated |-> TRUE]
         ELSE [result |-> "False", radius |-> r, radii |-> radii, popped |-> <<>>,
               updated |-> FALSE]
    ELSE IF ~first /\ second
    THEN IF radii # <<>>
         THEN [result |-> "True", radius |-> r, radii |-> Tail(radii),
               popped |-> <<Head(radii)>>, updated |-> TRUE]
         ELSE [result |-> "False", radius |-> r, radii |-> radii, popped |-> <<>>,
               updated |-> FALSE]
    ELSE [result |-> "None", radius |-> r, radii |-> radii, popped |-> <<>>,
          updated |-> FALSE]

\* the result of Sun.change_radius(first, second) on a Sun of radius r, deque radii and
\* reducing value d: the value returned (None when neither branch is taken), the radius
\* and the deque it leaves, what it popped off the deque, and whether it called update()
ChangeRadius(first, second, r, radii, d) ==
    IF first /\ ~second
    THEN IF r > d
         THEN [result |-> "True", radius |-> r - d, radii |-> radii, popped |-> <<>>,
               updated |-> TRUE]
         ELSE [result |-> "False", radius |-> r, radii |-> radii, popped |-> <<>>,
               updated |-> FALSE]
    ELSE IF ~first /\ second
    THEN IF radii # <<>>
         THEN [result |-> "True", radius |-> Head(radii), radii |-> Tail(radii),
               popped |-> <<Head(radii)>>, updated |-> TRUE]
         ELSE [result |-> "False", radius |-> r, radii |-> radii, popped |-> <<>>,
               updated |-> FALSE]
    ELSE [result |-> "None", radius |-> r, radii |-> radii, popped |-> <<>>,
          updated |-> FALSE]

\* an exhausted second phase that hands back to the first phase
NextPhaseLoopsBack(first, second) ==
    [first |-> second, second |-> first]

\* an exhausted first phase that ends the game instead of starting the second phase
NextPhaseSkipsSecond(first, second) ==
    [first |-> FALSE, second |-> FALSE]

\* the phase flags process_input leaves when change_radius did not return True:
\* the second phase is cleared, then the first phase hands over to the second
NextPhase(first, second) ==
    [first |-> FALSE, second |-> first]

\* a time limit that is only noticed one second late
TimeLimitReachedLate(e) == e = level_time_limit + 1

\* the first comparison of change_sun_location
TimeLimitReached(e) == e = level_time_limit

\* an update rate that is reached one second before the configured one
UpdateRateReachedEarly(e) == e = sun_update_rate - 1

\* the second comparison of change_sun_location
UpdateRateReached(e) == e = sun_update_rate

\* the guard of the MOUSEBUTTONDOWN branch of process_input
ClickIsProcessed == ~end_game

\* where process_input returns to
AfterProcessInput == IF caller = "run" THEN "change_sun_location" ELSE "video_loop"

----------------------------------------------------------------------------
(* The state after Game(): Sun.__init__ has built the deque and drawn a center.  *)
(* The window is the smallest one randrange(radius, screen - radius) accepts for *)
(* the radius the Sun is built with, one column wider than high.                *)

Init ==
    /\ sun_reducing_value = DefaultReducingValue
    /\ radius \in (sun_reducing_value + 1) .. MaxRadius
    /\ screen_height = 2 * radius + 1
    /\ screen_width = screen_height + 1
    /\ sun_radii \in InitializeSunRadii(radius, sun_reducing_value)
    /\ number_of_sun_radii = Len(sun_radii)
    /\ center_location \in UpdateLocations(radius)
    /\ displayed_text = TextWon
    /\ elapsed = 0
    /\ clock_fresh = TRUE
    /\ running = TRUE
    /\ running_end_video = FALSE
    /\ end_level = FALSE
    /\ end_game = FALSE
    /\ first_game_phase = TRUE
    /\ second_game_phase = FALSE
    /\ victory = FALSE
    /\ pc = "run"
    /\ caller = "run"
    /\ drained = 0
    /\ missed = FALSE
    /\ mouse = <<>>
    /\ initial_radius = radius
    /\ initial_radii = sun_radii
    /\ consumed = <<>>
    /\ shrinks = 0
    /\ random_hits = 0
    /\ frame_hits = <<>>
    /\ frame_read = -1
    /\ timeouts = 0
    /\ outcome = "none"
    /\ presented = <<>>

----------------------------------------------------------------------------
(* Game.run *)

\* while self.running: the loop test succeeds, process_input is called
RunIterate ==
    /\ pc = "run"
    /\ running
    /\ pc' = "process_input"
    /\ caller' = "run"
    /\ drained' = 0
    /\ missed' = FALSE
    /\ mouse' = <<>>
    /\ frame_hits' = <<>>
    /\ frame_read' = -1
    /\ UNCHANGED <<sun_vars, displayed_text, clock_vars, flag_vars, initial_radius,
                   initial_radii, consumed, shrinks, random_hits, timeouts, outcome,
                   presented>>

\* while self.running: the loop test fails, run returns to the script
RunExit ==
    /\ pc = "run"
    /\ ~running
    /\ pc' = "launch_end_video"
    /\ UNCHANGED <<sun_vars, displayed_text, clock_vars, flag_vars, caller, input_vars,
                   hist_vars>>

----------------------------------------------------------------------------
(* Game.process_input: one action per turn of the loop over pygame.event.get() *)

\* event_type == pygame.QUIT: both loop flags are cleared and the loop is left
HandleQuit ==
    /\ pc = "process_input"
    /\ drained < MaxEvents
    /\ running' = FALSE
    /\ running_end_video' = FALSE
    /\ pc' = AfterProcessInput
    /\ drained' = 0
    /\ missed' = FALSE
    /\ mouse' = <<>>
    /\ UNCHANGED <<sun_vars, displayed_text, clock_vars, end_level, end_game,
                   first_game_phase, second_game_phase, victory, caller, hist_vars>>

\* the kind of a hit, from what change_radius returned in which phase
HitKind(first, second, res) ==
    IF res.result = "True" THEN "ordinary"
    ELSE IF first THEN "shrink_exhausted"
    ELSE IF second THEN "random_exhausted"
    ELSE "finished"

\* the click at point is handled and lands on the Sun
IsHit(point) ==
    ClickIsProcessed /\ DoesPointBelongToCircle(point, center_location, radius)

\* the square of the distance from point to the centre of the Sun
SquaredDistance(point) ==
    (point[1] - center_location[1]) * (point[1] - center_location[1])
        + (point[2] - center_location[2]) * (point[2] - center_location[2])

\* point lies outside the disc of the Sun
OutsideDisc(point) == SquaredDistance(point) > radius * radius

\* event_type == pygame.MOUSEBUTTONDOWN with the mouse at point
HandleClick(point) ==
    /\ pc = "process_input"
    /\ drained < MaxEvents
    /\ drained' = drained + 1
    /\ missed' = OutsideDisc(point)
    /\ mouse' = <<>>
    /\ IF IsHit(point)
       THEN LET res == ChangeRadius(first_game_phase, second_game_phase, radius,
                                    sun_radii, sun_reducing_value)
                has_radius_changed == res.result = "True"
                phase == NextPhase(first_game_phase, second_game_phase)
            IN  /\ end_level' = TRUE
                /\ radius' = res.radius
                /\ sun_radii' = res.radii
                /\ center_location' \in
                       IF res.updated THEN UpdateLocations(res.radius) ELSE {center_location}
                /\ victory' = IF has_radius_changed THEN victory ELSE TRUE
                /\ first_game_phase' =
                       IF has_radius_changed THEN first_game_phase ELSE phase.first
                /\ second_game_phase' =
                       IF has_radius_changed THEN second_game_phase ELSE phase.second
                /\ consumed' = consumed \o res.popped
                /\ shrinks' = IF first_game_phase /\ has_radius_changed
                              THEN shrinks + 1 ELSE shrinks
                /\ random_hits' = IF second_game_phase THEN random_hits + 1 ELSE random_hits
                /\ frame_hits' = Append(frame_hits,
                                         HitKind(first_game_phase, second_game_phase, res))
       ELSE UNCHANGED <<radius, sun_radii, center_location, end_level, victory,
                        first_game_phase, second_game_phase, consumed, shrinks,
                        random_hits, frame_hits>>
    /\ UNCHANGED <<screen_width, screen_height, sun_reducing_value, number_of_sun_radii,
                   displayed_text, clock_vars, running, running_end_video, end_game, pc,
                   caller, initial_radius, initial_radii, frame_read, timeouts, outcome,
                   presented>>

\* an event of any other type: neither branch is taken
HandleOtherEvent ==
    /\ pc = "process_input"
    /\ drained < MaxEvents
    /\ drained' = drained + 1
    /\ missed' = FALSE
    /\ mouse' = <<>>
    /\ UNCHANGED <<sun_vars, displayed_text, clock_vars, flag_vars, pc, caller, hist_vars>>

\* the list of events is exhausted
EndOfEvents ==
    /\ pc = "process_input"
    /\ pc' = AfterProcessInput
    /\ drained' = 0
    /\ missed' = FALSE
    /\ mouse' = <<>>
    /\ UNCHANGED <<sun_vars, displayed_text, clock_vars, flag_vars, caller, hist_vars>>

ProcessInput ==
    \/ HandleQuit
    \/ \E point \in MousePositions : HandleClick(point)
    \/ HandleOtherEvent
    \/ EndOfEvents

----------------------------------------------------------------------------
(* Game.change_sun_location *)

\* the increments a clock read can see: none, or one second boundary unless one was
\* crossed (or the timer reset) within the last frame
ClockSteps == IF clock_fresh \/ elapsed >= MaxElapsed THEN {0} ELSE {0, 1}

\* step1 and step2 are the second boundaries crossed before the first and before the
\* second datetime.now() of the method; the second one is only evaluated when the
\* first comparison failed and neither end_game nor end_level is set
ChangeSunLocation ==
    /\ pc = "change_sun_location"
    /\ \E step1 \in ClockSteps :
       LET first_read == elapsed + step1
           timeout == TimeLimitReached(first_read)
           level_ended == end_level \/ timeout
           game_ended == end_game \/ timeout
           second_read_made == ~game_ended /\ ~level_ended
       IN  \E step2 \in (IF second_read_made /\ step1 = 0 THEN ClockSteps ELSE {0}) :
           LET second_read == first_read + step2
               update == ~game_ended /\ (level_ended \/ UpdateRateReached(second_read))
           IN  /\ displayed_text' = IF timeout THEN TextLost ELSE displayed_text
               /\ end_level' = level_ended
               /\ end_game' = game_ended
               /\ center_location' \in
                      IF update THEN UpdateLocations(radius) ELSE {center_location}
               /\ elapsed' = second_read
               /\ clock_fresh' = (step1 + step2 = 1)
               /\ frame_read' = first_read
               /\ timeouts' = IF timeout THEN 1 ELSE timeouts
    /\ pc' = "render"
    /\ UNCHANGED <<screen_width, screen_height, radius, sun_reducing_value, sun_radii,
                   number_of_sun_radii, running, running_end_video, first_game_phase,
                   second_game_phase, victory, caller, input_vars, initial_radius,
                   initial_radii, consumed, shrinks, random_hits, frame_hits, outcome,
                   presented>>

----------------------------------------------------------------------------
(* Game.render, followed by game_clock.tick(FPS) *)

\* the history of the radii the frames of the second phase ended on
Present(popped_so_far) ==
    IF popped_so_far > 0 /\ (presented = <<>> \/ presented[Len(presented)] # popped_so_far)
    THEN Append(presented, popped_so_far)
    ELSE presented

\* if self.victory: ... if not self.first_game_phase and self.second_game_phase:
\* the first phase was completed
RenderPhaseAdvance ==
    /\ victory /\ ~first_game_phase /\ second_game_phase
    /\ LET res == ChangeRadius(first_game_phase, second_game_phase, radius,
                               sun_radii, sun_reducing_value)
       IN  /\ radius' = res.radius
           /\ sun_radii' = res.radii
           /\ center_location' \in
                  IF res.updated THEN UpdateLocations(res.radius) ELSE {center_location}
           /\ consumed' = consumed \o res.popped
    /\ displayed_text' = TextWon
    /\ elapsed' = 0
    /\ clock_fresh' = TRUE
    /\ end_level' = FALSE
    /\ end_game' = FALSE
    /\ victory' = FALSE
    /\ presented' = Present(Len(consumed'))
    /\ UNCHANGED <<running, running_end_video, first_game_phase, second_game_phase,
                   outcome>>

\* if self.victory: ... elif not self.first_game_phase and not self.second_game_phase:
\* the game was completed
RenderVictory ==
    /\ victory /\ ~first_game_phase /\ ~second_game_phase
    /\ displayed_text' = TextGameDone
    /\ running' = FALSE
    /\ running_end_video' = TRUE
    /\ outcome' = "victory"
    /\ UNCHANGED <<radius, sun_radii, center_location, consumed, clock_vars,
                   end_level, end_game, victory, first_game_phase, second_game_phase,
                   presented>>

\* an end-of-level branch that pauses without resetting last_sun_location_update
RenderLevelKeepsTimer ==
    /\ ~(victory /\ ~first_game_phase)
    /\ elapsed' = elapsed
    /\ clock_fresh' = clock_fresh
    /\ end_level' = FALSE
    /\ outcome' = IF end_game THEN "defeat" ELSE outcome
    /\ presented' = IF second_game_phase THEN Present(Len(consumed)) ELSE presented
    /\ UNCHANGED <<radius, sun_radii, center_location, consumed, displayed_text,
                   running, running_end_video, end_game, victory, first_game_phase,
                   second_game_phase>>

\* neither early return is taken: the end-of-level message and pause, then the
\* background and the Sun unless the game is over
RenderLevel ==
    /\ ~(victory /\ ~first_game_phase)
    /\ elapsed' = IF end_level THEN 0 ELSE elapsed
    /\ clock_fresh' = IF end_level THEN TRUE ELSE clock_fresh
    /\ end_level' = FALSE
    /\ outcome' = IF end_game THEN "defeat" ELSE outcome
    /\ presented' = IF second_game_phase THEN Present(Len(consumed)) ELSE presented
    /\ UNCHANGED <<radius, sun_radii, center_location, consumed, displayed_text,
                   running, running_end_video, end_game, victory, first_game_phase,
                   second_game_phase>>

Render ==
    /\ pc = "render"
    /\ pc' = "run"
    /\ \/ RenderPhaseAdvance
       \/ RenderVictory
       \/ RenderLevel
    /\ UNCHANGED <<screen_width, screen_height, sun_reducing_value, number_of_sun_radii,
                   caller, input_vars, initial_radius, initial_radii, shrinks, random_hits,
                   frame_hits, frame_read, timeouts>>

----------------------------------------------------------------------------
(* Game.launch_end_video and Game.quit_game *)

\* if self.victory: the video is loaded and its loop is reached
LaunchEndVideo ==
    /\ pc = "launch_end_video"
    /\ victory
    /\ pc' = "video_loop"
    /\ UNCHANGED <<sun_vars, displayed_text, clock_vars, flag_vars, caller, input_vars,
                   hist_vars>>

\* if self.victory: fails, the method returns at once
SkipEndVideo ==
    /\ pc = "launch_end_video"
    /\ ~victory
    /\ pc' = "quit_game"
    /\ UNCHANGED <<sun_vars, displayed_text, clock_vars, flag_vars, caller, input_vars,
                   hist_vars>>

\* while self.running_end_video: the loop test succeeds, process_input is called
\* (a frame of the video is played when it returns)
VideoIterate ==
    /\ pc = "video_loop"
    /\ running_end_video
    /\ pc' = "process_input"
    /\ caller' = "video"
    /\ drained' = 0
    /\ missed' = FALSE
    /\ mouse' = <<>>
    /\ frame_hits' = <<>>
    /\ frame_read' = -1
    /\ UNCHANGED <<sun_vars, displayed_text, clock_vars, flag_vars, initial_radius,
                   initial_radii, consumed, shrinks, random_hits, timeouts, outcome,
                   presented>>

\* while self.running_end_video: the loop test fails
VideoExit ==
    /\ pc = "video_loop"
    /\ ~running_end_video
    /\ pc' = "quit_game"
    /\ UNCHANGED <<sun_vars, displayed_text, clock_vars, flag_vars, caller, input_vars,
                   hist_vars>>

\* quit_game: music and video are stopped, pygame is shut down
QuitGame ==
    /\ pc = "quit_game"
    /\ pc' = "done"
    /\ UNCHANGED <<sun_vars, displayed_text, clock_vars, flag_vars, caller, input_vars,
                   hist_vars>>

----------------------------------------------------------------------------
(* Sun.__init__ alone, for every radius and reducing value within the bounds: *)
(* the state before initialize_sun_radii is called, and the call.             *)

InitSun ==
    /\ sun_reducing_value \in 1 .. MaxReducingValue
    /\ radius \in (sun_reducing_value + 1) .. MaxRadius
    /\ screen_height = 2 * radius + 1
    /\ screen_width = screen_height + 1
    /\ sun_radii = <<>>
    /\ number_of_sun_radii = 0
    /\ center_location = <<0, 0>>
    /\ displayed_text = TextWon
    /\ elapsed = 0
    /\ clock_fresh = TRUE
    /\ running = TRUE
    /\ running_end_video = FALSE
    /\ end_level = FALSE
    /\ end_game = FALSE
    /\ first_game_phase = TRUE
    /\ second_game_phase = FALSE
    /\ victory = FALSE
    /\ pc = "sun_init"
    /\ caller = "run"
    /\ drained = 0
    /\ missed = FALSE
    /\ mouse = <<>>
    /\ initial_radius = radius
    /\ initial_radii = <<>>
    /\ consumed = <<>>
    /\ shrinks = 0
    /\ random_hits = 0
    /\ frame_hits = <<>>
    /\ frame_read = -1
    /\ timeouts = 0
    /\ outcome = "none"
    /\ presented = <<>>

\* self.initialize_sun_radii()
BuildSunRadii ==
    /\ pc = "sun_init"
    /\ sun_radii' \in InitializeSunRadii(radius, sun_reducing_value)
    /\ number_of_sun_radii' = Len(sun_radii')
    /\ initial_radii' = sun_radii'
    /\ pc' = "sun_built"
    /\ UNCHANGED <<screen_width, screen_height, radius, center_location,
                   sun_reducing_value, displayed_text, clock_vars, flag_vars, caller,
                   input_vars, initial_radius, consumed, shrinks, random_hits, frame_hits,
                   frame_read, timeouts, outcome, presented>>

SpecSun == InitSun /\ [][BuildSunRadii]_vars

----------------------------------------------------------------------------
(* The hit test of process_input alone, lines 397-401, for every radius, centre and *)
(* mouse position of a window of the largest size: the state in which the mouse     *)
(* position has just been read, and the test with the assignment it guards.         *)

ScreenPoints == (0 .. 2 * MaxRadius + 1) \X (0 .. 2 * MaxRadius)

InitHitTest ==
    /\ sun_reducing_value = DefaultReducingValue
    /\ radius \in 1 .. MaxRadius
    /\ screen_height = 2 * MaxRadius + 1
    /\ screen_width = screen_height + 1
    /\ sun_radii = <<>>
    /\ number_of_sun_radii = 0
    /\ center_location \in ScreenPoints
    /\ displayed_text = TextWon
    /\ elapsed = 0
    /\ clock_fresh = TRUE
    /\ running = TRUE
    /\ running_end_video = FALSE
    /\ end_level = FALSE
    /\ end_game = FALSE
    /\ first_game_phase = TRUE
    /\ second_game_phase = FALSE
    /\ victory = FALSE
    /\ pc = "hit_test"
    /\ caller = "run"
    /\ drained = 0
    /\ missed = FALSE
    /\ mouse \in ScreenPoints
    /\ initial_radius = radius
    /\ initial_radii = <<>>
    /\ consumed = <<>>
    /\ shrinks = 0
    /\ random_hits = 0
    /\ frame_hits = <<>>
    /\ frame_read = -1
    /\ timeouts = 0
    /\ outcome = "none"
    /\ presented = <<>>

\* if self.__does_point_belong_to_circle(mouse_center_location, self.sun):
\*     self.end_level = True
HitTest ==
    /\ pc = "hit_test"
    /\ end_level' = (end_level \/ DoesPointBelongToCircle(mouse, center_location, radius))
    /\ pc' = "hit_tested"
    /\ UNCHANGED <<sun_vars, displayed_text, clock_vars, running, running_end_video,
                   end_game, first_game_phase, second_game_phase, victory, caller,
                   input_vars, hist_vars>>

SpecHitTest == InitHitTest /\ [][HitTest]_vars

----------------------------------------------------------------------------

Next ==
    \/ RunIterate
    \/ RunExit
    \/ ProcessInput
    \/ ChangeSunLocation
    \/ Render
    \/ LaunchEndVideo
    \/ SkipEndVideo
    \/ VideoIterate
    \/ VideoExit
    \/ QuitGame

Spec == Init /\ [][Next]_vars

----------------------------------------------------------------------------
(* Predicates shared by the properties below *)

\* render has just completed a frame of the main loop
FrameEnded == pc = "run" /\ frame_read >= 0

\* the frame's timeout check saw the time limit reached
FrameTimedOut == frame_read >= level_time_limit

\* the phases of the game, from the two phase flags
ShrinkPhase == first_game_phase /\ ~second_game_phase
RandomPhase == ~first_game_phase /\ second_game_phase
Finished == ~first_game_phase /\ ~second_game_phase

\* the kinds of the hits registered in the current frame
FrameHitKinds == {frame_hits[i] : i \in DOMAIN frame_hits}

\* the step handles a click that is registered as a hit
HitStep == Len(frame_hits') = Len(frame_hits) + 1

----------------------------------------------------------------------------
(* C1 *)

\* C1: when the timeout check of a frame fires and a click of the same frame hit the
\* Sun, whatever the kind of the hit, the frame ends in defeat: end_game is set after
\* render, the loss message is the text, and neither victory nor a phase advance
\* was resolved.
C1_TimeoutBeatsHit ==
    (FrameEnded /\ FrameTimedOut /\ frame_hits # <<>>) =>
        (end_game /\ displayed_text = TextLost /\ outcome = "defeat")

----------------------------------------------------------------------------
(* C2 *)

\* C2: in the first phase a registered hit with radius > reducing value sets the radius
\* to the previous radius minus the reducing value and leaves the phase alone; a
\* registered hit with radius <= reducing value moves the phase to the second phase;
\* and no other step (miss, ignored click, quit, timeout, reposition, render) takes
\* the game out of the first phase.
C2_ShrinkPhaseHits ==
    [][ShrinkPhase =>
           /\ (HitStep /\ radius > sun_reducing_value) =>
                  (radius' = radius - sun_reducing_value /\ ShrinkPhase')
           /\ (HitStep /\ radius <= sun_reducing_value) => RandomPhase'
           /\ ~ShrinkPhase' => (HitStep /\ radius <= sun_reducing_value /\ RandomPhase')
      ]_vars

\* a shrinking hit was registered and, later, the hit that ends the first phase
C2_Witness == shrinks > 0 /\ RandomPhase /\ "shrink_exhausted" \in FrameHitKinds

----------------------------------------------------------------------------
(* C3 *)

\* render has just resolved the advance from the first phase to the second
PhaseAdvanceResolved ==
    FrameEnded /\ RandomPhase /\ "shrink_exhausted" \in FrameHitKinds

\* the hit that ended the first phase was the last hit of its frame
ExhaustingHitWasLast ==
    frame_hits # <<>> /\ frame_hits[Len(frame_hits)] = "shrink_exhausted"

\* C3 as stated: once render has resolved the advance from the first phase to the
\* second, the radius of the Sun equals the reducing value.
C3_SizeIsDecrementAfterAdvance ==
    PhaseAdvanceResolved => radius = sun_reducing_value

\* C3 as amended: once render has resolved the advance from the first phase to the
\* second, the radius of the Sun is the radius most recently popped off the front of
\* the deque; it is the initial radius, the head of the deque as built, when the hit
\* that ended the first phase was the last hit of its frame.
C3_SizeIsPoppedAfterAdvance ==
    PhaseAdvanceResolved =>
        /\ consumed # <<>>
        /\ radius = consumed[Len(consumed)]
        /\ ExhaustingHitWasLast => (consumed = <<initial_radius>> /\ radius = initial_radius)

\* the advance was resolved after a single exhausting hit, on a deque of several radii
C3_Witness ==
    /\ PhaseAdvanceResolved
    /\ ExhaustingHitWasLast
    /\ radius = initial_radius
    /\ Len(initial_radii) > 1

----------------------------------------------------------------------------
(* C4 *)

\* the length the claim gives for the deque built for the second phase
ClaimedLength == ((initial_radius - sun_reducing_value) \div sun_reducing_value) + 1

\* C4: when no timeout check has fired, the game is finished (the second phase was
\* exhausted) exactly on the length-th hit registered since the second phase was
\* entered, length being the length of the deque as built,
\* floor((initial radius - reducing value) / reducing value) + 1, for every shuffle
\* order and every distribution of the clicks over the frames.
C4_VictoryOnLengthThHit ==
    (Finished /\ timeouts = 0) =>
        (random_hits = Len(initial_radii) /\ Len(initial_radii) = ClaimedLength)

----------------------------------------------------------------------------
(* C5 *)

\* C5: in the second phase the radii are served in the order of the deque as built:
\* when the game is won every radius of the deque has been popped, in order, and each
\* one, starting with the initial radius, was the radius of the Sun at the end of a
\* frame exactly once, in that order, however the clicks were distributed over frames.
C5_EverySizePresentedInOrder ==
    outcome = "victory" =>
        /\ consumed = initial_radii
        /\ presented = [i \in 1 .. Len(initial_radii) |-> i]

----------------------------------------------------------------------------
(* C6 *)

\* C6: for every radius r and reducing value d with 0 < d < r, the deque built by
\* initialize_sun_radii starts with r, and the rest of it holds each multiple
\* d, 2d, ... that does not exceed r - d exactly once and nothing else, so that its
\* length, also recorded in number_of_sun_radii, is floor((r - d) / d) + 1.
C6_SunRadiiBuilt ==
    pc = "sun_built" =>
        LET n == Len(sun_radii)
            d == sun_reducing_value
        IN  /\ n = ((radius - d) \div d) + 1
            /\ number_of_sun_radii = n
            /\ sun_radii[1] = radius
            /\ \A k \in 1 .. (n - 1) :
                   Cardinality({i \in 2 .. n : sun_radii[i] = k * d}) = 1
            /\ \A i \in 2 .. n : sun_radii[i] % d = 0 /\ sun_radii[i] <= radius - d

\* a deque of four radii was built whose shuffled part is not in ascending order and
\* whose largest multiple is exactly radius - reducing value
C6_Witness ==
    /\ pc = "sun_built"
    /\ Len(sun_radii) = 4
    /\ sun_radii[2] > sun_radii[3]
    /\ \E i \in 2 .. 4 : sun_radii[i] = radius - sun_reducing_value

----------------------------------------------------------------------------
(* C7 *)

\* C7 as stated: in every state the radius is the element most recently popped off
\* the deque, or the initial radius when nothing has been popped yet.
C7_SizeIsLastConsumedOrDefault ==
    radius = IF consumed = <<>> THEN initial_radius ELSE consumed[Len(consumed)]

\* C7 amended: in every state the radius is the element most recently popped off the
\* deque; while nothing has been popped yet it is the initial radius less the reducing
\* value for each first-phase hit that shrank the sun.
C7_SizeIsLastConsumedOrShrunk ==
    radius = IF consumed = <<>>
             THEN initial_radius - shrinks * sun_reducing_value
             ELSE consumed[Len(consumed)]

\* the sun was shrunk in the first phase, two radii were popped since, and the radius
\* is the second of them
C7_Witness ==
    /\ shrinks > 0
    /\ Len(consumed) = 2
    /\ radius = consumed[2]
    /\ radius # initial_radius

----------------------------------------------------------------------------
(* C8 *)

\* the clock read of the current frame found the level time limit reached and no click
\* of the frame was registered as a hit
NoHitTimeout == frame_read >= level_time_limit /\ frame_hits = <<>>

\* C8: in the first and in the second phase alike, a frame whose clock read finds the
\* level time limit reached since the timer was last reset, and in which no click hit
\* the sun, is a defeat: change_sun_location sets end_game and end_level and the loss
\* text, and render leaves end_game and the loss text in place.  Clicks that miss the
\* sun change nothing, so they neither prevent nor delay it.  The clock cannot step over
\* the limit unnoticed: while the game is not over the time elapsed is below the limit,
\* or it has just reached it (in the second clock read of change_sun_location) and the
\* next read finds exactly the limit.
C8_NoHitTimeoutIsDefeat ==
    /\ (pc = "render" /\ NoHitTimeout) =>
           (end_game /\ end_level /\ displayed_text = TextLost)
    /\ (FrameEnded /\ NoHitTimeout) =>
           (end_game /\ displayed_text = TextLost /\ outcome = "defeat" /\ ~victory)
    /\ (~end_game /\ pc # "change_sun_location") =>
           (elapsed < level_time_limit \/ (elapsed = level_time_limit /\ clock_fresh))

\* a frame of the second phase with no hit ended in defeat on reaching the time limit
C8_Witness ==
    /\ FrameEnded
    /\ NoHitTimeout
    /\ RandomPhase
    /\ end_game
    /\ displayed_text = TextLost

----------------------------------------------------------------------------
(* C9 *)

\* a frame has ended with end_game still set after render: end_game is set by
\* change_sun_location only, just before render, so it is set outside render exactly
\* when an earlier render left it set
DefeatResolved == end_game /\ (pc # "render" \/ outcome = "defeat")

\* the step of process_input that handles pygame.QUIT
QuitStep == pc = "process_input" /\ pc' = AfterProcessInput /\ ~running' /\ ~running_end_video'

\* C9: once a frame has ended with end_game still set after render, end_game stays set,
\* victory is never set, no step changes the radius, the location, the deque or the
\* phase flags, and the main loop is only stopped by the handling of a QUIT event.
C9_DefeatIsTerminal ==
    /\ [](DefeatResolved => ~victory)
    /\ [][DefeatResolved =>
             /\ DefeatResolved'
             /\ UNCHANGED <<radius, center_location, sun_radii, first_game_phase,
                            second_game_phase>>
             /\ (running /\ ~running') => QuitStep]_vars

----------------------------------------------------------------------------
(* C10 *)

\* the loop of launch_end_video has been reached
VideoLoopEntered == pc = "video_loop" \/ caller = "video"

----------------------------------------------------------------------------
(* C11 *)

\* process_input handles one event
EventStep == pc = "process_input" /\ drained' = drained + 1

\* the event handled is a click made at a point outside the disc of the Sun
MissStep == EventStep /\ missed'

\* C11: a click outside the disc of the Sun changes nothing of the game: the radius,
\* the location and the deque of the Sun, the phase flags, end_level, end_game, victory,
\* the text and the time elapsed on the level timer are the same after it as before.
C11_MissChangesNothing ==
    [][MissStep =>
           UNCHANGED <<radius, center_location, sun_radii, first_game_phase,
                       second_game_phase, end_level, end_game, victory, running,
                       running_end_video, displayed_text, elapsed, clock_fresh>>]_vars

\* a click of the second phase has just missed the Sun, one second into the level
C11_Witness ==
    /\ pc = "process_input"
    /\ missed
    /\ RandomPhase
    /\ elapsed = 1
    /\ frame_hits = <<>>

----------------------------------------------------------------------------
(* C12 *)

\* C12: the hit test accepts the mouse position exactly when the square of its
\* distance to the centre of the Sun is at most the square of the radius; a position
\* at distance exactly the radius is accepted and a position one unit further out on
\* the same row or column is rejected.
C12_HitTestIsClosedDisc ==
    pc = "hit_tested" =>
        /\ end_level <=> SquaredDistance(mouse) <= radius * radius
        /\ SquaredDistance(mouse) = radius * radius => end_level
        /\ SquaredDistance(mouse) = (radius + 1) * (radius + 1) => ~end_level

\* a position on the rim of the disc, on neither axis through the centre, was accepted
C12_Witness ==
    /\ pc = "hit_tested"
    /\ end_level
    /\ SquaredDistance(mouse) = radius * radius
    /\ mouse[1] # center_location[1]
    /\ mouse[2] # center_location[2]

----------------------------------------------------------------------------
(* C13 *)

\* C13: the two phase flags are never both set, so that exactly one of the first
\* phase, the second phase and the finished game holds in every state; and every step
\* keeps the phase or moves it forward, from the first phase to the second and from
\* the second to the finished game: the first phase is never entered again and no
\* flag is set again once the game is finished.
C13_PhaseMovesForward ==
    /\ [](~(first_game_phase /\ second_game_phase))
    /\ [][/\ ShrinkPhase => (ShrinkPhase' \/ RandomPhase')
          /\ RandomPhase => (RandomPhase' \/ Finished')
          /\ Finished => Finished']_vars

\* the game is finished after hits in both phases, and a click on the Sun was handled
\* after that (in the loop of the end video)
C13_Witness ==
    /\ Finished
    /\ shrinks > 0
    /\ random_hits >= 2
    /\ caller = "video"
    /\ "finished" \in FrameHitKinds

----------------------------------------------------------------------------
(* C14 *)

\* the next call of change_radius finds its phase exhausted
Exhausted ==
    \/ ShrinkPhase /\ radius <= sun_reducing_value
    \/ RandomPhase /\ sun_radii = <<>>

\* C14: in every state in which the phase is exhausted (first phase with the radius at
\* most the reducing value, second phase with the deque empty) change_radius returns
\* False, it does not raise, and it leaves the radius, the deque and the location of
\* the Sun as they are (update() is not called).
C14_ExhaustionIsAResult ==
    Exhausted =>
        LET res == ChangeRadius(first_game_phase, second_game_phase, radius, sun_radii,
                                sun_reducing_value)
        IN  /\ res.result = "False"
            /\ res.radius = radius
            /\ res.radii = sun_radii
            /\ res.popped = <<>>
            /\ ~res.updated

\* a frame has ended in which the first phase was found exhausted by a hit, a later hit
\* popped the last radius of the deque, and the call render makes for the phase advance
\* found the deque empty: the radius is still the one popped last
C14_Witness ==
    /\ PhaseAdvanceResolved
    /\ Exhausted
    /\ consumed = initial_radii
    /\ frame_hits[Len(frame_hits)] = "ordinary"
    /\ radius = consumed[Len(consumed)]

----------------------------------------------------------------------------
(* C15 *)

\* C15: the level time limit is strictly greater than the rate at which the Sun is
\* moved to a new location, so that a level timer that has reached the update rate has
\* not reached the time limit.
C15_TimeLimitExceedsUpdateRate ==
    UpdateRateReached(elapsed) =>
        (level_time_limit > sun_update_rate /\ ~TimeLimitReached(elapsed))

----------------------------------------------------------------------------
(* C16 *)

\* a frame of the main loop has ended in which the Sun was hit and no hit ended the game
HitFrameEnded ==
    FrameEnded /\ frame_hits # <<>> /\ "random_exhausted" \notin FrameHitKinds

----------------------------------------------------------------------------
(* C17 *)

\* the step is a call of change_sun_location whose two clock reads differ
ReadsDiffer == pc = "change_sun_location" /\ elapsed' # frame_read'

----------------------------------------------------------------------------
(* C18 *)

\* the frame of the main loop in which process_input handled a QUIT event: running is
\* cleared and change_sun_location or render is still to be called
QuitFrame == caller = "run" /\ pc \in {"change_sun_location", "render"} /\ ~running

\* C18: once the main loop has handled a QUIT event it is left at the next test of
\* running and the loop of the end video is not entered, whatever was handled in the
\* same frame before the QUIT: the rest of the frame leaves running and
\* running_end_video cleared, and a main loop left with running_end_video cleared
\* finds victory unset in launch_end_video.
C18_QuitSkipsEndVideo ==
    /\ []((pc = "launch_end_video" /\ ~running_end_video) => ~victory)
    /\ [][QuitFrame => (~running' /\ ~running_end_video')]_vars

----------------------------------------------------------------------------
(* C19 *)

\* C19: in every state, so also right after every change of the radius and every move
\* of the Sun, the centre (cx, cy) satisfies radius <= cx <= screen_width - radius and
\* radius <= cy <= screen_height - radius for the radius of that state.
C19_DiscOnScreen ==
    /\ radius <= center_location[1]
    /\ center_location[1] <= screen_width - radius
    /\ radius <= center_location[2]
    /\ center_location[2] <= screen_height - radius

\* the second phase has just popped a radius larger than the one before, and the Sun
\* was placed against the left edge of the window
C19_Witness ==
    /\ RandomPhase
    /\ Len(consumed) >= 3
    /\ consumed[Len(consumed)] > consumed[Len(consumed) - 1]
    /\ radius = consumed[Len(consumed)]
    /\ center_location[1] = radius

----------------------------------------------------------------------------
(* C20 *)

\* C20: in every state the radius is a positive integer not greater than the initial
\* radius; no hit of either phase makes it zero or negative.
C20_RadiusPositive ==
    radius \in 1 .. initial_radius

\* the first phase was found exhausted by a hit at radius 1, below the reducing value,
\* and the radius is still 1
C20_Witness ==
    /\ pc = "process_input"
    /\ frame_hits # <<>>
    /\ frame_hits[Len(frame_hits)] = "shrink_exhausted"
    /\ radius = 1
    /\ radius < sun_reducing_value

====
